---- MODULE Spec2Model ----
\* Model of src/src/bin/tui/ui.rs: the TUI coordination layer of grin-miner.
\* Three threads: the caller of Controller::run / UI::stop ("main"), the
\* display thread spawned by UI::new (runs cursive), and the relay thread
\* ("_listener") that forwards UIMessages to cursive's callback sink.
EXTENDS Integers, Sequences, FiniteSets, TLC

\* ------------------------------------------------------------------ bounds
MaxTime == 42      \* clock ticks explored (one tick = one 100 ms sleep)
MaxFairTime == 21  \* clock ticks explored by the fair specification
MaxIdle == 9       \* ticks that may pass before run() is first called
MaxKeys == 2       \* presses of the 'q' key
MaxStops == 2      \* calls of UI::stop
MaxRuns == 2       \* calls of Controller::run

\* ------------------------------------------------------- program constants
stat_update_interval == 1   \* seconds, ui.rs:165
TicksPerSec == 10           \* 1 s / the 100 ms sleep of ui.rs:185

VARIABLES
  now,               \* wall clock, in ticks of 100 ms
  main_pc,           \* position of the thread that owns the Controller
  next_stat_update,  \* local of run(), whole seconds
  handle,            \* UI.handle: TRUE = Some(join handle), FALSE = None
  ctrl_rx,           \* Controller.rx: queue of ControllerMessage
  ctrl_rx_alive,     \* Controller.rx not yet dropped
  ui_rx,             \* ui_rx: queue of UIMessage
  ui_rx_alive,       \* ui_rx not yet dropped
  display_pc,        \* position of the display thread
  cb_sink,           \* cursive's callback queue
  relay_pc,          \* position of the relay thread
  keys,              \* key presses so far
  runs,              \* run() calls so far
  stops,             \* stop() calls so far
  \* history variables (observations, never read by the program)
  uiSent,            \* every UIMessage accepted by the channel, in order
  fwdLog,            \* every cb_sink.send of the relay, in order
  joinCount,         \* completed joins of the display thread
  nUpd,              \* UpdateStatus sends attempted so far
  run_start,         \* tick at which the current run() started
  runUpd,            \* UpdateStatus sends of the current run()
  runQuit,           \* Quit sends of the current run()
  runsReturned,      \* run() calls that returned
  stopsReturned,     \* stop() calls that returned
  enq_at,            \* for each queued Shutdown: the run() during which it
                     \* was enqueued, and whether that was before the
                     \* first status update of that run() was scheduled
  pendSleeps,        \* sleeps run() finished with a Shutdown pending
  last_enq,          \* the Shutdown run() consumed last came early
  stopOnDead,        \* the current stop() began with the display thread gone
  relayAfterBreak,   \* receives or forwards the relay made after its break
  sendPanic,         \* a thread panicked because a send failed
  last_push,         \* tick of the last status push of the current run(),
                     \* or of its start
  chk_elapsed,       \* ticks since last_push at run()'s latest timer check
  chk_sent,          \* that timer check sent an UpdateStatus
  consumed,          \* Shutdowns run() has taken off its channel
  enqueued,          \* Shutdowns the channel has accepted
  updPending,        \* UpdateStatus sends of the current run() made with a
                     \* Shutdown waiting in the channel
  earlyQuit          \* a Quit was already buffered when the relay was spawned

vars == <<now, main_pc, next_stat_update, handle, ctrl_rx, ctrl_rx_alive,
          ui_rx, ui_rx_alive, display_pc, cb_sink, relay_pc, keys, runs,
          stops, uiSent, fwdLog, joinCount, nUpd, run_start, runUpd, runQuit,
          runsReturned, stopsReturned, enq_at, pendSleeps, last_enq,
          stopOnDead, relayAfterBreak, sendPanic, last_push, chk_elapsed,
          chk_sent, consumed, enqueued, updPending, earlyQuit>>

\* ----------------------------------------------------------------- values
Shutdown == "Shutdown"
Quit == [type |-> "Quit", id |-> 0]
UpdateStatus(n) == [type |-> "UpdateStatus", id |-> n]

\* The callback the relay builds for a message (ui.rs:108-116).
QuitCb == [cb |-> "quit", id |-> 0]
UpdateCb(n) == [cb |-> "update", id |-> n]
CallbackOf_updateOnly(m) == UpdateCb(m.id)
CallbackOf(m) == IF m.type = "Quit" THEN QuitCb ELSE UpdateCb(m.id)

\* time::get_time().sec: the clock read as whole seconds.
Sec(t) == t \div TicksPerSec

\* ------------------------------------------------------------- primitives
\* mpsc::Sender::send: Ok and enqueued while the receiver lives, Err else.
send(alive, q, m) ==
  IF alive THEN [ok |-> TRUE, q |-> Append(q, m)]
           ELSE [ok |-> FALSE, q |-> q]

\* mpsc::Receiver::try_recv: Ok(head) with the head removed, or Err(Empty),
\* or Err(Disconnected) once the channel is empty and every sender is gone.
try_recv_peek(q, txAlive) ==
  IF q # <<>> THEN [ok |-> TRUE, err |-> "", rest |-> q]
              ELSE [ok |-> FALSE, rest |-> q,
                    err |-> IF txAlive THEN "Empty" ELSE "Disconnected"]
try_recv(q, txAlive) ==
  IF q # <<>> THEN [ok |-> TRUE, err |-> "", rest |-> Tail(q)]
              ELSE [ok |-> FALSE, rest |-> q,
                    err |-> IF txAlive THEN "Empty" ELSE "Disconnected"]

\* `if let Ok(message) = self.rx.try_recv()` with its one match arm
\* (ui.rs:168-170): only Ok is a Shutdown, either Err falls through.
IsShutdown_orDisconnected(r) == r.ok \/ r.err = "Disconnected"
IsShutdown(r) == r.ok

\* `let _ = x.send(..)`: the result is dropped, the thread goes on.
Ignore_unwrap(ok, next) == IF ok THEN next ELSE "panicked"
Ignore(ok, next) == next

\* `.send(..).unwrap()`: an Err panics the thread.
Unwrap(ok, next) == IF ok THEN next ELSE "panicked"

\* `let _ = handle.join()`: the Err of a panicked thread is dropped.
JoinResult_unwrap(panicked, next) == IF panicked THEN "panicked" ELSE next
JoinResult(panicked, next) == next

\* Option::take on UI.handle: what was there, and None left behind.
take_keep(h) == [taken |-> h, left |-> h]
take(h) == [taken |-> h, left |-> FALSE]

\* `time::get_time().sec > next_stat_update` (ui.rs:180).
Due_ge(sec, next) == sec >= next
Due(sec, next) == sec > next

\* `time::get_time().sec + stat_update_interval` (ui.rs:166, 182).
NextDeadline(sec) == sec + stat_update_interval

\* Where run() goes after its sleep: the top of `loop` (ui.rs:167).
LoopTop_skipPoll == "run_timer"
LoopTop == "run_poll"

\* The relay's position after it handled a message (ui.rs:105-120):
\* `break` after Quit, the next recv after UpdateStatus.
AfterMessage_noBreak(m) == "recv"
AfterMessage(m) == IF m.type = "Quit" THEN "broke" ELSE "recv"

\* The message ui_rx.recv() hands the relay: the oldest one.
RecvIndex_lifo(q) == Len(q)
RecvIndex(q) == 1

DisplayFinished == display_pc \in {"exited", "panicked"}
\* cursive's callback receiver lives as long as the Cursive value does.
SinkOpen == display_pc \in {"setup", "run"}
\* UI.ui_tx lives as long as the Controller that owns the UI.
UiTxAlive == main_pc # "dropped"
\* The senders of the Controller's channel (controller_tx and its clone in the
\* 'q' callback) are owned by the display thread (ui.rs:61-100).
CtrlTxAlive == display_pc \in {"setup", "run"}
InLoop == main_pc \in {"run_poll", "run_timer", "run_sleep"}
InRun == main_pc \in {"run_poll", "run_timer", "run_sleep", "run_join"}

\* Stamp of a Shutdown enqueued now: the index of the latest run() and whether
\* less than one interval of that run() has elapsed (or no run() is going on).
EnqStamp ==
  [run |-> runs,
   early |-> (~InRun \/ now - run_start < stat_update_interval * TicksPerSec)]
\* A Shutdown with stamp e, consumed by run() number r, was enqueued before
\* the first status update of that run() was scheduled.
EarlyFor(e, r) == e.run < r \/ e.early

RemoveAt(q, i) == SubSeq(q, 1, i - 1) \o SubSeq(q, i + 1, Len(q))

\* ------------------------------------------------------------------- Init
Init ==
  /\ now = 0
  /\ main_pc = "idle"
  /\ next_stat_update = 0
  /\ handle = TRUE
  /\ ctrl_rx = <<>>
  /\ ctrl_rx_alive = TRUE
  /\ ui_rx = <<>>
  /\ ui_rx_alive = TRUE
  /\ display_pc = "setup"
  /\ cb_sink = <<>>
  /\ relay_pc = "none"
  /\ keys = 0
  /\ runs = 0
  /\ stops = 0
  /\ uiSent = <<>>
  /\ fwdLog = <<>>
  /\ joinCount = 0
  /\ nUpd = 0
  /\ run_start = 0
  /\ runUpd = 0
  /\ runQuit = 0
  /\ runsReturned = 0
  /\ stopsReturned = 0
  /\ enq_at = <<>>
  /\ pendSleeps = 0
  /\ last_enq = FALSE
  /\ stopOnDead = FALSE
  /\ relayAfterBreak = 0
  /\ sendPanic = FALSE
  /\ last_push = 0
  /\ chk_elapsed = 0
  /\ chk_sent = FALSE
  /\ consumed = 0
  /\ enqueued = 0
  /\ updPending = 0
  /\ earlyQuit = FALSE

\* ---------------------------------------------------------- main: run()
\* Controller::run entry (ui.rs:164-166).
RunCall ==
  /\ main_pc = "idle"
  /\ runs < MaxRuns
  /\ runs' = runs + 1
  /\ next_stat_update' = NextDeadline(Sec(now))
  /\ main_pc' = LoopTop
  /\ run_start' = now
  /\ runUpd' = 0
  /\ runQuit' = 0
  /\ pendSleeps' = 0
  /\ UNCHANGED <<now, handle, ctrl_rx, ctrl_rx_alive, ui_rx, ui_rx_alive,
                 display_pc, cb_sink, relay_pc, keys, stops, uiSent, fwdLog,
                 joinCount, nUpd, runsReturned, stopsReturned, enq_at,
                 last_enq, stopOnDead, relayAfterBreak, sendPanic>>
  /\ last_push' = now
  /\ updPending' = 0
  /\ UNCHANGED <<chk_elapsed, chk_sent, consumed, enqueued>>
  /\ UNCHANGED earlyQuit

\* The non-blocking poll, and on Shutdown the Quit send and the take of the
\* join handle (ui.rs:168-177, up to the join).
RunPoll ==
  /\ main_pc = "run_poll"
  /\ LET r == try_recv(ctrl_rx, CtrlTxAlive) IN
     IF IsShutdown(r)
     THEN LET s == send(ui_rx_alive, ui_rx, Quit)
              t == take(handle)
              after == IF t.taken THEN "run_join" ELSE "idle"
          IN /\ ctrl_rx' = r.rest
             /\ enq_at' = IF r.ok THEN Tail(enq_at) ELSE enq_at
             /\ last_enq' = (r.ok /\ EarlyFor(Head(enq_at), runs))
             /\ consumed' = IF r.ok THEN consumed + 1 ELSE consumed
             /\ ui_rx' = s.q
             /\ uiSent' = IF s.ok THEN Append(uiSent, Quit) ELSE uiSent
             /\ runQuit' = runQuit + 1
             /\ handle' = t.left
             /\ main_pc' = Ignore(s.ok, after)
             /\ runsReturned' =
                  IF main_pc' = "idle" THEN runsReturned + 1 ELSE runsReturned
     ELSE /\ main_pc' = "run_timer"
          /\ UNCHANGED <<ctrl_rx, enq_at, last_enq, ui_rx, uiSent, runQuit,
                         handle, runsReturned, consumed>>
  /\ UNCHANGED <<now, next_stat_update, ctrl_rx_alive, ui_rx_alive,
                 display_pc, cb_sink, relay_pc, keys, runs, stops, fwdLog,
                 joinCount, nUpd, run_start, runUpd, stopsReturned,
                 pendSleeps, stopOnDead, relayAfterBreak, sendPanic,
                 last_push, chk_elapsed, chk_sent, enqueued, updPending>>
  /\ UNCHANGED earlyQuit

\* handle.join() of run() (ui.rs:173-175): blocks until the display thread
\* has finished, then run() returns.
RunJoin ==
  /\ main_pc = "run_join"
  /\ DisplayFinished
  /\ joinCount' = joinCount + 1
  /\ main_pc' = JoinResult(display_pc = "panicked", "idle")
  /\ runsReturned' = IF main_pc' = "idle" THEN runsReturned + 1 ELSE runsReturned
  /\ UNCHANGED <<now, next_stat_update, handle, ctrl_rx, ctrl_rx_alive,
                 ui_rx, ui_rx_alive, display_pc, cb_sink, relay_pc, keys,
                 runs, stops, uiSent, fwdLog, nUpd, run_start, runUpd,
                 runQuit, stopsReturned, enq_at, pendSleeps, last_enq,
                 stopOnDead, relayAfterBreak, sendPanic>>
  /\ UNCHANGED <<last_push, chk_elapsed, chk_sent, consumed, enqueued,
                 updPending>>
  /\ UNCHANGED earlyQuit

\* The timer check and the status push (ui.rs:180-183).
RunTimer ==
  /\ main_pc = "run_timer"
  /\ chk_elapsed' = now - last_push
  /\ chk_sent' = Due(Sec(now), next_stat_update)
  /\ UNCHANGED <<consumed, enqueued>>
  /\ IF Due(Sec(now), next_stat_update)
     THEN LET s == send(ui_rx_alive, ui_rx, UpdateStatus(nUpd + 1)) IN
          /\ ui_rx' = s.q
          /\ uiSent' = IF s.ok THEN Append(uiSent, UpdateStatus(nUpd + 1))
                               ELSE uiSent
          /\ nUpd' = nUpd + 1
          /\ runUpd' = runUpd + 1
          /\ last_push' = now
          /\ updPending' = IF ctrl_rx # <<>> THEN updPending + 1
                                            ELSE updPending
          /\ next_stat_update' = NextDeadline(Sec(now))
          /\ main_pc' = Ignore(s.ok, "run_sleep")
     ELSE /\ main_pc' = "run_sleep"
          /\ UNCHANGED <<ui_rx, uiSent, nUpd, runUpd, next_stat_update,
                         last_push, updPending>>
  /\ UNCHANGED <<now, handle, ctrl_rx, ctrl_rx_alive, ui_rx_alive,
                 display_pc, cb_sink, relay_pc, keys, runs, stops, fwdLog,
                 joinCount, run_start, runQuit, runsReturned, stopsReturned,
                 enq_at, pendSleeps, last_enq, stopOnDead, relayAfterBreak,
                 sendPanic>>
  /\ UNCHANGED earlyQuit

\* thread::sleep(100 ms) (ui.rs:185): one tick passes, back to the loop top.
RunSleep ==
  /\ main_pc = "run_sleep"
  /\ now < MaxTime
  /\ now' = now + 1
  /\ main_pc' = LoopTop
  /\ pendSleeps' = IF ctrl_rx # <<>> THEN pendSleeps + 1 ELSE pendSleeps
  /\ UNCHANGED <<next_stat_update, handle, ctrl_rx, ctrl_rx_alive, ui_rx,
                 ui_rx_alive, display_pc, cb_sink, relay_pc, keys, runs,
                 stops, uiSent, fwdLog, joinCount, nUpd, run_start, runUpd,
                 runQuit, runsReturned, stopsReturned, enq_at, last_enq,
                 stopOnDead, relayAfterBreak, sendPanic>>
  /\ UNCHANGED <<last_push, chk_elapsed, chk_sent, consumed, enqueued,
                 updPending>>
  /\ UNCHANGED earlyQuit

\* --------------------------------------------------------- main: stop()
\* UI::stop up to the join (ui.rs:132-135): the Quit send, the take.
StopCall ==
  /\ main_pc = "idle"
  /\ stops < MaxStops
  /\ stops' = stops + 1
  /\ stopOnDead' = DisplayFinished
  /\ LET s == send(ui_rx_alive, ui_rx, Quit)
         t == take(handle)
         after == IF t.taken THEN "stop_join" ELSE "idle"
     IN /\ ui_rx' = s.q
        /\ uiSent' = IF s.ok THEN Append(uiSent, Quit) ELSE uiSent
        /\ handle' = t.left
        /\ main_pc' = Ignore(s.ok, after)
        /\ stopsReturned' =
             IF main_pc' = "idle" THEN stopsReturned + 1 ELSE stopsReturned
  /\ UNCHANGED <<now, next_stat_update, ctrl_rx, ctrl_rx_alive, ui_rx_alive,
                 display_pc, cb_sink, relay_pc, keys, runs, fwdLog,
                 joinCount, nUpd, run_start, runUpd, runQuit, runsReturned,
                 enq_at, pendSleeps, last_enq, relayAfterBreak, sendPanic>>
  /\ UNCHANGED <<last_push, chk_elapsed, chk_sent, consumed, enqueued,
                 updPending>>
  /\ UNCHANGED earlyQuit

\* handle.join() of stop() (ui.rs:136).
StopJoin ==
  /\ main_pc = "stop_join"
  /\ DisplayFinished
  /\ joinCount' = joinCount + 1
  /\ main_pc' = JoinResult(display_pc = "panicked", "idle")
  /\ stopsReturned' = IF main_pc' = "idle" THEN stopsReturned + 1 ELSE stopsReturned
  /\ UNCHANGED <<now, next_stat_update, handle, ctrl_rx, ctrl_rx_alive,
                 ui_rx, ui_rx_alive, display_pc, cb_sink, relay_pc, keys,
                 runs, stops, uiSent, fwdLog, nUpd, run_start, runUpd,
                 runQuit, runsReturned, enq_at, pendSleeps, last_enq,
                 stopOnDead, relayAfterBreak, sendPanic>>
  /\ UNCHANGED <<last_push, chk_elapsed, chk_sent, consumed, enqueued,
                 updPending>>
  /\ UNCHANGED earlyQuit

\* Time passing while the owner of the Controller does something else.
IdleTick ==
  /\ main_pc = "idle"
  /\ now < MaxIdle
  /\ now' = now + 1
  /\ UNCHANGED <<main_pc, next_stat_update, handle, ctrl_rx, ctrl_rx_alive,
                 ui_rx, ui_rx_alive, display_pc, cb_sink, relay_pc, keys,
                 runs, stops, uiSent, fwdLog, joinCount, nUpd, run_start,
                 runUpd, runQuit, runsReturned, stopsReturned, enq_at,
                 pendSleeps, last_enq, stopOnDead, relayAfterBreak,
                 sendPanic>>
  /\ UNCHANGED <<last_push, chk_elapsed, chk_sent, consumed, enqueued,
                 updPending>>
  /\ UNCHANGED earlyQuit

\* The Controller goes out of scope (struct Controller, ui.rs:143-146): its
\* rx and its UI (ui_tx, handle) are dropped; the threads are detached.
DropController ==
  /\ main_pc = "idle"
  /\ main_pc' = "dropped"
  /\ ctrl_rx_alive' = FALSE
  /\ ctrl_rx' = <<>>
  /\ enq_at' = <<>>
  /\ handle' = FALSE
  /\ UNCHANGED <<now, next_stat_update, ui_rx, ui_rx_alive, display_pc,
                 cb_sink, relay_pc, keys, runs, stops, uiSent, fwdLog,
                 joinCount, nUpd, run_start, runUpd, runQuit, runsReturned,
                 stopsReturned, pendSleeps, last_enq, stopOnDead,
                 relayAfterBreak, sendPanic>>
  /\ UNCHANGED <<last_push, chk_elapsed, chk_sent, consumed, enqueued,
                 updPending>>
  /\ UNCHANGED earlyQuit

\* -------------------------------------------------------- display thread
\* The display thread builds the views and spawns the relay (ui.rs:65-121).
DisplaySpawnRelay ==
  /\ display_pc = "setup"
  /\ display_pc' = "run"
  /\ relay_pc' = "recv"
  /\ UNCHANGED <<now, main_pc, next_stat_update, handle, ctrl_rx,
                 ctrl_rx_alive, ui_rx, ui_rx_alive, cb_sink, keys, runs,
                 stops, uiSent, fwdLog, joinCount, nUpd, run_start, runUpd,
                 runQuit, runsReturned, stopsReturned, enq_at, pendSleeps,
                 last_enq, stopOnDead, relayAfterBreak, sendPanic>>
  /\ UNCHANGED <<last_push, chk_elapsed, chk_sent, consumed, enqueued,
                 updPending>>
  /\ earlyQuit' = (\E i \in 1..Len(ui_rx) : ui_rx[i] = Quit)

\* cursive.run() (ui.rs:123) takes the next callback off its queue and runs
\* it: an update redraws, s.quit() ends the event loop and the thread.
DisplayStep ==
  /\ display_pc = "run"
  /\ cb_sink # <<>>
  /\ IF Head(cb_sink).cb = "quit"
     THEN /\ display_pc' = "exited"
          /\ cb_sink' = <<>>
     ELSE /\ cb_sink' = Tail(cb_sink)
          /\ UNCHANGED display_pc
  /\ UNCHANGED <<now, main_pc, next_stat_update, handle, ctrl_rx,
                 ctrl_rx_alive, ui_rx, ui_rx_alive, relay_pc, keys, runs,
                 stops, uiSent, fwdLog, joinCount, nUpd, run_start, runUpd,
                 runQuit, runsReturned, stopsReturned, enq_at, pendSleeps,
                 last_enq, stopOnDead, relayAfterBreak, sendPanic>>
  /\ UNCHANGED <<last_push, chk_elapsed, chk_sent, consumed, enqueued,
                 updPending>>
  /\ UNCHANGED earlyQuit

\* The operator presses 'q': the global callback sends Shutdown and unwraps
\* the result (ui.rs:96-100).
KeyPress ==
  /\ display_pc = "run"
  /\ keys < MaxKeys
  /\ keys' = keys + 1
  /\ LET s == send(ctrl_rx_alive, ctrl_rx, Shutdown) IN
     /\ ctrl_rx' = s.q
     /\ enq_at' = IF s.ok THEN Append(enq_at, EnqStamp) ELSE enq_at
     /\ enqueued' = IF s.ok THEN enqueued + 1 ELSE enqueued
     /\ display_pc' = Unwrap(s.ok, "run")
     /\ sendPanic' = (sendPanic \/ display_pc' = "panicked")
     /\ cb_sink' = IF display_pc' = "panicked" THEN <<>> ELSE cb_sink
  /\ UNCHANGED <<now, main_pc, next_stat_update, handle, ctrl_rx_alive,
                 ui_rx, ui_rx_alive, relay_pc, runs, stops, uiSent, fwdLog,
                 joinCount, nUpd, run_start, runUpd, runQuit, runsReturned,
                 stopsReturned, pendSleeps, last_enq, stopOnDead,
                 relayAfterBreak>>
  /\ UNCHANGED <<last_push, chk_elapsed, chk_sent, consumed, updPending>>
  /\ UNCHANGED earlyQuit

\* The display thread panics in code it calls (Cursive::default(), a view's
\* create or update, cursive.run()): ui.rs:65-123. Before the relay is
\* spawned the unwinding closure still owns ui_rx and drops it.
DisplayPanic ==
  /\ display_pc \in {"setup", "run"}
  /\ display_pc' = "panicked"
  /\ cb_sink' = <<>>
  /\ IF display_pc = "setup"
     THEN /\ ui_rx_alive' = FALSE
          /\ ui_rx' = <<>>
     ELSE UNCHANGED <<ui_rx_alive, ui_rx>>
  /\ UNCHANGED <<now, main_pc, next_stat_update, handle, ctrl_rx,
                 ctrl_rx_alive, relay_pc, keys, runs, stops, uiSent, fwdLog,
                 joinCount, nUpd, run_start, runUpd, runQuit, runsReturned,
                 stopsReturned, enq_at, pendSleeps, last_enq, stopOnDead,
                 relayAfterBreak, sendPanic>>
  /\ UNCHANGED <<last_push, chk_elapsed, chk_sent, consumed, enqueued,
                 updPending>>
  /\ UNCHANGED earlyQuit

\* ----------------------------------------------------------- relay thread
\* One turn of `while let Ok(message) = ui_rx.recv()` with a message
\* (ui.rs:105-119): forward its callback, break on Quit.
RelayRecv ==
  /\ relay_pc = "recv"
  /\ ui_rx # <<>>
  /\ LET i == RecvIndex(ui_rx)
         m == ui_rx[i]
         s == send(SinkOpen, cb_sink, CallbackOf(m))
     IN /\ ui_rx' = RemoveAt(ui_rx, i)
        /\ cb_sink' = s.q
        /\ fwdLog' = Append(fwdLog, [cb |-> CallbackOf(m), ok |-> s.ok])
        /\ relay_pc' = Ignore(s.ok, AfterMessage(m))
        /\ relayAfterBreak' =
             IF \E k \in 1..Len(fwdLog) : fwdLog[k].cb = QuitCb
             THEN relayAfterBreak + 1 ELSE relayAfterBreak
        /\ sendPanic' = (sendPanic \/ relay_pc' = "panicked")
  /\ UNCHANGED <<now, main_pc, next_stat_update, handle, ctrl_rx,
                 ctrl_rx_alive, ui_rx_alive, display_pc, keys, runs, stops,
                 uiSent, joinCount, nUpd, run_start, runUpd, runQuit,
                 runsReturned, stopsReturned, enq_at, pendSleeps, last_enq,
                 stopOnDead>>
  /\ UNCHANGED <<last_push, chk_elapsed, chk_sent, consumed, enqueued,
                 updPending>>
  /\ UNCHANGED earlyQuit

\* recv() returns Err once the channel is empty and ui_tx is dropped: the
\* `while let` ends without a Quit (ui.rs:105).
RelayDisconnected ==
  /\ relay_pc = "recv"
  /\ ui_rx = <<>>
  /\ ~UiTxAlive
  /\ relay_pc' = "broke"
  /\ UNCHANGED <<now, main_pc, next_stat_update, handle, ctrl_rx,
                 ctrl_rx_alive, ui_rx, ui_rx_alive, display_pc, cb_sink,
                 keys, runs, stops, uiSent, fwdLog, joinCount, nUpd,
                 run_start, runUpd, runQuit, runsReturned, stopsReturned,
                 enq_at, pendSleeps, last_enq, stopOnDead, relayAfterBreak,
                 sendPanic>>
  /\ UNCHANGED <<last_push, chk_elapsed, chk_sent, consumed, enqueued,
                 updPending>>
  /\ UNCHANGED earlyQuit

\* The relay's closure returns (ui.rs:121): ui_rx and its buffer are dropped.
RelayExit ==
  /\ relay_pc \in {"broke", "panicked"}
  /\ ui_rx_alive
  /\ relay_pc' = IF relay_pc = "broke" THEN "exited" ELSE relay_pc
  /\ ui_rx_alive' = FALSE
  /\ ui_rx' = <<>>
  /\ UNCHANGED <<now, main_pc, next_stat_update, handle, ctrl_rx,
                 ctrl_rx_alive, display_pc, cb_sink, keys, runs, stops,
                 uiSent, fwdLog, joinCount, nUpd, run_start, runUpd, runQuit,
                 runsReturned, stopsReturned, enq_at, pendSleeps, last_enq,
                 stopOnDead, relayAfterBreak, sendPanic>>
  /\ UNCHANGED <<last_push, chk_elapsed, chk_sent, consumed, enqueued,
                 updPending>>
  /\ UNCHANGED earlyQuit

\* ------------------------------------------------------------------ Next
Next ==
  \/ RunCall
  \/ RunPoll
  \/ RunJoin
  \/ RunTimer
  \/ RunSleep
  \/ StopCall
  \/ StopJoin
  \/ IdleTick
  \/ DropController
  \/ DisplaySpawnRelay
  \/ DisplayStep
  \/ KeyPress
  \/ DisplayPanic
  \/ RelayRecv
  \/ RelayDisconnected
  \/ RelayExit

Spec == Init /\ [][Next]_vars

\* The same program with the scheduling its threads can rely on: the display
\* thread gets through its setup and keeps turning its event loop, the relay
\* is woken when a message (or the disconnect) arrives and its closure
\* returns after the loop, and a join returns once its thread has finished.
\* Nothing forces the caller to call run() or stop(), a key to be pressed,
\* the display thread to crash, or the clock to move.
\* Termination does not depend on how long run() has been looping, so the
\* clock is followed only up to MaxFairTime: far enough for a status update
\* to be in the channel ahead of the Quit.
FairNext ==
  \/ RunCall
  \/ RunPoll
  \/ RunJoin
  \/ RunTimer
  \/ (RunSleep /\ now' <= MaxFairTime)
  \/ StopCall
  \/ StopJoin
  \/ IdleTick
  \/ DropController
  \/ DisplaySpawnRelay
  \/ DisplayStep
  \/ KeyPress
  \/ DisplayPanic
  \/ RelayRecv
  \/ RelayDisconnected
  \/ RelayExit
FairSpec ==
  /\ Init
  /\ [][FairNext]_vars
  /\ WF_vars(DisplaySpawnRelay)
  /\ WF_vars(DisplayStep)
  /\ WF_vars(RelayRecv)
  /\ WF_vars(RelayDisconnected)
  /\ WF_vars(RelayExit)
  /\ WF_vars(RunJoin)
  /\ WF_vars(StopJoin)

\* ============================================================ properties
\* Index of the first Quit of a message sequence, Len + 1 when it has none.
FirstQuit(q) ==
  IF \E i \in 1..Len(q) : q[i].type = "Quit"
  THEN CHOOSE i \in 1..Len(q) :
         q[i].type = "Quit" /\ \A j \in 1..(i - 1) : q[j].type # "Quit"
  ELSE Len(q) + 1
QuitForwards == {i \in 1..Len(fwdLog) : fwdLog[i].cb = QuitCb}
QuitsSent == {i \in 1..Len(uiSent) : uiSent[i].type = "Quit"}
RelayDone == relay_pc \in {"broke", "exited"}
\* The callbacks the sink accepted, in order.
Accepted == SelectSeq(fwdLog, LAMBDA e : e.ok)
IsSuffix(a, b) ==
  /\ Len(a) <= Len(b)
  /\ a = SubSeq(b, Len(b) - Len(a) + 1, Len(b))

\* C1: the relay forwards the messages of the UIMessage channel in send order,
\* one callback per message: its i-th cb_sink.send carries the callback of the
\* i-th message sent, it forwards nothing past the first Quit, once it has
\* left its loop on a Quit every UpdateStatus sent before that Quit has been
\* forwarded before the termination callback, and while the display thread
\* runs every forward was accepted and the sink holds a suffix of them.
C1_OrderPreserved ==
  /\ Len(fwdLog) <= Len(uiSent)
  /\ Len(fwdLog) <= FirstQuit(uiSent)
  /\ \A i \in 1..Len(fwdLog) : fwdLog[i].cb = CallbackOf(uiSent[i])
  /\ (RelayDone /\ QuitForwards # {}) => Len(fwdLog) = FirstQuit(uiSent)
  /\ display_pc = "run" =>
       /\ \A i \in 1..Len(fwdLog) : fwdLog[i].ok
       /\ IsSuffix([i \in 1..Len(cb_sink) |-> [cb |-> cb_sink[i], ok |-> TRUE]],
                   fwdLog)
\* Two status updates and then the termination callback were forwarded.
C1_Witness ==
  /\ Len(fwdLog) >= 3
  /\ fwdLog[1].cb = UpdateCb(1)
  /\ fwdLog[2].cb = UpdateCb(2)
  /\ fwdLog[Len(fwdLog)].cb = QuitCb
  /\ \A i \in 1..Len(fwdLog) : fwdLog[i].ok

\* C2: once the relay has forwarded the termination callback for a Quit it
\* has left its loop, that callback is the last thing it ever forwarded, and
\* it made no receive afterwards, whatever is sent on the channel later.
C2_NothingAfterQuit ==
  /\ relayAfterBreak = 0
  /\ QuitForwards # {} =>
       /\ relay_pc \in {"broke", "exited"}
       /\ QuitForwards = {Len(fwdLog)}
       /\ Len(fwdLog) = FirstQuit(uiSent)
\* An UpdateStatus was accepted by the channel after the relay took the Quit.
C2_Witness ==
  /\ QuitForwards # {}
  /\ \E i \in 1..Len(uiSent) :
       uiSent[i].type = "UpdateStatus" /\ i > FirstQuit(uiSent)

\* C3: after a call of stop() has returned the display thread is finished and
\* the join handle is empty, and every further call ends there as well: it
\* never waits in a join and never panics.
C3_StopIdempotent ==
  stopsReturned >= 1 =>
    /\ ~handle
    /\ DisplayFinished
    /\ main_pc \notin {"stop_join", "panicked"}
    /\ joinCount = 1
\* stop() was called twice and returned twice.
C3_Witness == stopsReturned = 2 /\ runs = 0

\* C4: the display thread is joined at most once over all stop() and run()
\* calls: a join is only ever begun with the handle taken and no join done.
C4_JoinedAtMostOnce ==
  /\ joinCount <= 1
  /\ joinCount = 1 => ~handle
  /\ main_pc \in {"run_join", "stop_join"} => (joinCount = 0 /\ ~handle)
\* Both cancellation paths ran to their end and one join was made.
C4_Witness == runsReturned >= 1 /\ stopsReturned >= 1 /\ joinCount = 1

\* C5: run() never finishes more than one sleep with a Shutdown pending, it is
\* past its poll only with none pending at the last sleep, and it stays in
\* the loop exactly as long as it has sent no Quit.
C5_BoundedShutdownResponse ==
  /\ pendSleeps <= 1
  /\ main_pc \in {"run_timer", "run_sleep"} => (pendSleeps = 0 /\ runQuit = 0)
  /\ main_pc = "run_poll" => runQuit = 0
  /\ main_pc = "run_join" => runQuit = 1
\* A Shutdown enqueued while run() slept was consumed at the next poll.
C5_Witness == main_pc = "run_join" /\ pendSleeps = 1

\* C6: with no Shutdown pending, a run() that has made its timer check 1.1 s
\* after it started has sent exactly one UpdateStatus, and 2.1 s after it
\* started exactly two.
C6_Cadence ==
  (main_pc = "run_sleep" /\ ctrl_rx = <<>>) =>
    /\ now - run_start = stat_update_interval * TicksPerSec + 1 => runUpd = 1
    /\ now - run_start = 2 * stat_update_interval * TicksPerSec + 1 =>
         runUpd = 2

\* C7: a run() that consumed a Shutdown enqueued less than one update interval
\* after it started (or before it started) has sent no UpdateStatus and
\* exactly one Quit.
C7_EarlyShutdown ==
  (runQuit >= 1 /\ last_enq) => (runUpd = 0 /\ runQuit = 1)
\* The first run() returned on a Shutdown enqueued while it slept, 0.3 s in.
C7_Witness ==
  /\ runs = 1
  /\ runsReturned = 1
  /\ last_enq
  /\ pendSleeps = 1
  /\ now - run_start = 3
  /\ runUpd = 0

\* C8: a stop() that began with the display thread already finished does not
\* panic, has its join (if it holds the handle) ready to complete at once,
\* and leaves the handle empty.
C8_StopOnFinishedThread ==
  (stopOnDead /\ ~InRun /\ main_pc # "dropped") =>
    /\ main_pc # "panicked"
    /\ main_pc = "stop_join" => ENABLED StopJoin
    /\ ~handle
    /\ main_pc = "idle" => stopsReturned = stops
\* stop() returned after joining a display thread that crashed before it
\* spawned the relay.
C8_Witness ==
  /\ stopOnDead
  /\ stopsReturned = 1
  /\ joinCount = 1
  /\ relay_pc = "none"
  /\ display_pc = "panicked"

\* C9: no thread panics because a send of it failed.
C9_SendFailuresSwallowed == ~sendPanic

\* C10: the relay forwards the termination callback at most once however many
\* Quits are sent, exactly once when it has left its loop after a Quit was
\* sent, and that forward was accepted if the display thread still runs.
C10_QuitForwardedOnce ==
  /\ Cardinality(QuitForwards) <= 1
  /\ QuitForwards # {} => QuitsSent # {}
  /\ (RelayDone /\ QuitsSent # {}) => Cardinality(QuitForwards) = 1
  /\ Len(SelectSeq(Accepted, LAMBDA e : e.cb = QuitCb)) <= 1
  /\ (display_pc = "run" /\ QuitForwards # {}) =>
       Len(SelectSeq(cb_sink, LAMBDA c : c = QuitCb)) = 1
\* Two Quits were accepted by the channel, one termination callback enqueued.
C10_Witness ==
  /\ Cardinality(QuitsSent) >= 2
  /\ Len(SelectSeq(Accepted, LAMBDA e : e.cb = QuitCb)) = 1

\* C11: at every timer check of run() an UpdateStatus is sent exactly when at
\* least one interval (1 s) has elapsed since the last push (or since run()
\* started), and a check that sends resets the deadline to now + interval.
C11_TimerRule ==
  main_pc = "run_sleep" =>
    /\ chk_sent <=> chk_elapsed >= stat_update_interval * TicksPerSec
    /\ chk_sent => next_stat_update = Sec(now) + stat_update_interval

\* C14 (as claimed): once run() has returned and the display thread, the only
\* producer, is finished, every Shutdown the channel accepted has been
\* consumed by the run loop.
C14_EveryShutdownConsumed ==
  (runs >= 1 /\ runsReturned = runs /\ DisplayFinished /\ ctrl_rx_alive) =>
    consumed = enqueued
\* C14 (amended): no Shutdown is consumed twice and none is lost while the
\* Controller lives (each accepted one is either consumed or still queued),
\* and an execution of run() consumes at most one, the one that ends it.
C14_ConsumedAtMostOnce ==
  /\ ctrl_rx_alive => consumed + Len(ctrl_rx) = enqueued
  /\ consumed <= enqueued
  /\ consumed <= runs
  /\ consumed = runsReturned + (IF main_pc = "run_join" THEN 1 ELSE 0)
\* Two presses were accepted, run() consumed one and returned, the display
\* thread is finished and the second Shutdown is still queued.
C14_Witness ==
  /\ enqueued = 2
  /\ consumed = 1
  /\ runsReturned = 1
  /\ DisplayFinished
  /\ Len(ctrl_rx) = 1

\* C15: an invocation of run() that follows one that has returned sends
\* neither an UpdateStatus nor a Quit.
C15_StoppedIsTerminal ==
  (runs >= 2 /\ runsReturned >= 1) => (runUpd = 0 /\ runQuit = 0)

\* C16: within one execution of run() at most one Quit is sent, run() is out of
\* its loop once it has sent it (so no UpdateStatus follows it), and at most
\* one UpdateStatus is sent while a Shutdown waits in the channel.
C16_QuitIsLast ==
  /\ runQuit <= 1
  /\ runQuit = 1 => ~InLoop
  /\ updPending <= 1
\* run() sent an UpdateStatus with a Shutdown already queued, then the Quit.
C16_Witness == updPending = 1 /\ runQuit = 1 /\ main_pc = "run_join"

\* C17: run() returns only by handling a Shutdown: every return was preceded
\* by its own consumption of a Shutdown and a Quit send and leaves the handle
\* empty; a disconnected channel does not end the loop, so with no Shutdown
\* ever sent run() has not returned, also after the display thread is gone.
C17_ReturnsOnlyOnShutdown ==
  /\ consumed = runsReturned + (IF main_pc = "run_join" THEN 1 ELSE 0)
  /\ runsReturned >= 1 => ~handle
  /\ (runs >= 1 /\ ~InLoop) => runQuit = 1
  /\ enqueued = 0 => runsReturned = 0
  /\ (runs >= 1 /\ enqueued = 0 /\ main_pc # "dropped") => InLoop
\* The display thread died before spawning the relay, no Shutdown was ever
\* sent, and run() is still looping after its second UpdateStatus.
C17_Witness ==
  /\ display_pc = "panicked"
  /\ relay_pc = "none"
  /\ keys = 0
  /\ InLoop
  /\ runUpd = 2

\* C12: under fair scheduling of the relay and the display loop a join begun
\* by run() completes, and once run() has consumed a Shutdown it has
\* returned, the display thread has finished and the relay has exited.
C12_ShutdownLiveness ==
  /\ (main_pc = "run_join") ~> (main_pc # "run_join")
  /\ (consumed >= 1) ~>
       (runsReturned >= 1 /\ DisplayFinished /\ relay_pc = "exited")
\* run() has handled a Shutdown, joined the display thread that left its loop
\* on the termination callback, and the relay has exited.
C12_Witness ==
  /\ consumed = 1
  /\ runsReturned = 1
  /\ stops = 0
  /\ joinCount = 1
  /\ display_pc = "exited"
  /\ relay_pc = "exited"
  /\ Len(Accepted) >= 1
  /\ Accepted[Len(Accepted)].cb = QuitCb

\* C13 (as claimed): with the display thread gone, the relay has left its loop
\* only if it received a Quit.
C13_TerminatesOnlyOnQuit ==
  (DisplayFinished /\ RelayDone) => QuitForwards # {}
\* C13 (amended): a failed cb_sink.send never ends the relay: it has not
\* panicked, after an UpdateStatus it is receiving again, and it has left its
\* loop only after a Quit or after ui_tx was dropped.
C13_RelaySurvivesClosedSink ==
  /\ relay_pc # "panicked"
  /\ RelayDone => (QuitForwards # {} \/ ~UiTxAlive)
  /\ (fwdLog # <<>> /\ fwdLog[Len(fwdLog)].cb # QuitCb) =>
       (relay_pc = "recv" \/ ~UiTxAlive)
  /\ (relay_pc = "recv" /\ ui_rx # <<>>) => ENABLED RelayRecv
\* The relay had an UpdateStatus forward refused by the closed sink, went on
\* to receive the Quit and exited.
C13_Witness ==
  /\ Len(fwdLog) >= 2
  /\ fwdLog[1].cb = UpdateCb(1)
  /\ ~fwdLog[1].ok
  /\ QuitForwards # {}
  /\ relay_pc = "exited"

\* The display thread panicked during its setup, before it spawned the relay:
\* no relay will ever exist and ui_rx was dropped with the closure.
CrashedInSetup == display_pc = "panicked" /\ relay_pc = "none"

\* C18: a Quit the channel accepted stays buffered until the relay takes it
\* (also when it was sent before the relay existed), and under fair
\* scheduling the relay then forwards the termination callback, the display
\* thread finishes and the joining stop() or run() returns; the one exception
\* is a display thread that panics in its setup, which is no interleaving
\* but a failure: then only the finish and the return remain.
C18_QuitNotLost ==
  /\ []((QuitsSent # {} /\ QuitForwards = {} /\ ~CrashedInSetup) =>
          (ui_rx_alive /\ \E i \in 1..Len(ui_rx) : ui_rx[i] = Quit))
  /\ (QuitsSent # {}) ~>
       ((QuitForwards # {} \/ CrashedInSetup) /\ DisplayFinished)
  /\ (main_pc \in {"stop_join", "run_join"}) ~> (main_pc = "idle")
\* A Quit sent before the relay was spawned was forwarded and accepted, the
\* event loop ended on it and the stop() that joined has returned.
C18_Witness ==
  /\ earlyQuit
  /\ display_pc = "exited"
  /\ stopsReturned >= 1
  /\ joinCount = 1
  /\ runs = 0
  /\ Len(Accepted) = 1
  /\ Accepted[1].cb = QuitCb

====
